---- MODULE Spec2Model ----
(***************************************************************************)
(* hera: container-lifecycle-driven tunnel controller (handler.go).        *)
(*                                                                         *)
(* The Handler receives container events (HandleEvent) and container ids   *)
(* at startup (HandleContainer).  A start sequence inspects the container, *)
(* reads its hera.* labels, resolves its hostname with a bounded retry     *)
(* loop, looks up a certificate and starts a tunnel; a stop sequence       *)
(* inspects the container, looks the tunnel up by hostname and stops it.   *)
(*                                                                         *)
(* Every invocation runs on a slot p \in Procs; its position is pc[p] and  *)
(* its local variables are frame[p].  Each action is one blocking call of  *)
(* the handler together with the local code that follows it, so that       *)
(* invocations interleave at the calls to the collaborators.               *)
(***************************************************************************)
EXTENDS Integers, Sequences, FiniteSets, TLC

VARIABLES
    pc,        \* pc[p]: position of the invocation running on slot p
    frame,     \* frame[p]: the invocation's arguments and local variables
    registry,  \* the tunnel registry: a set of entries [host, tunnel]
    tunnels,   \* every tunnel the transport has started, by tunnel id
    handled,   \* number of invocations accepted so far
    out        \* what the step just taken handed to the caller of the handler, if anything

vars == <<pc, frame, registry, tunnels, handled, out>>

----------------------------------------------------------------------------
(* Bounds of the model *)

MaxEvents == 2     \* invocations accepted in one behaviour

\* The handler's callers: up to two invocations are in flight at once.
Procs == {1, 2}

----------------------------------------------------------------------------
(* Program constants *)

heraHostname == "hera.hostname"
heraPort == "hera.port"
heraIP == "hera.ip"
heraProtocol == "hera.protocol"

maxAttempts == 5

nil == "nil"
InspectionError == "InspectionError"
ResolutionError == "ResolutionError"
CertificateError == "CertificateError"
TunnelNotFoundError == "TunnelNotFoundError"
TunnelOperationError == "TunnelOperationError"

Errors == {InspectionError, ResolutionError, CertificateError,
           TunnelNotFoundError, TunnelOperationError}

----------------------------------------------------------------------------
(* The environment: containers, DNS, public suffixes, certificate store *)

ContainerIDs == {"c1", "c2", "c3", "c4", "c5", "c6", "c7"}

Statuses == {"start", "die", "stop"}

\* The label map of each container known to the runtime.
ContainerLabels(id) ==
    CASE id = "c1" -> (heraHostname :> "a.example.com") @@ (heraPort :> "8080")
      [] id = "c2" -> (heraHostname :> "a.example.com") @@ (heraPort :> "8080")
                      @@ (heraIP :> "5.6.7.8") @@ (heraProtocol :> "https")
      [] id = "c3" -> (heraHostname :> "api.example.co.uk") @@ (heraPort :> "443")
      [] id = "c4" -> (heraHostname :> "b.example.org") @@ (heraPort :> "80")
      [] id = "c5" -> (heraHostname :> "co.uk") @@ (heraPort :> "80")
      [] id = "c6" -> (heraHostname :> "a.example.com")
      [] OTHER     -> (heraPort :> "80")

\* What a successful inspection returns.
ContainerJSON(id) ==
    [ID |-> id, Config |-> [Hostname |-> id, Labels |-> ContainerLabels(id)]]

\* The addresses the DNS publishes for a container's configured hostname,
\* in resolver order.
Addresses(host) ==
    CASE host = "c1" -> <<"1.2.3.4", "1.2.3.9">>
      [] host = "c2" -> <<"1.2.3.5">>
      [] host = "c3" -> <<"1.2.3.6", "1.2.3.4">>
      [] OTHER       -> <<"1.2.3.7">>

\* A hostname as its dot-separated labels.
Split(hostname) ==
    CASE hostname = "a.example.com"     -> <<"a", "example", "com">>
      [] hostname = "api.example.co.uk" -> <<"api", "example", "co", "uk">>
      [] hostname = "b.example.org"     -> <<"b", "example", "org">>
      [] hostname = "co.uk"             -> <<"co", "uk">>
      [] OTHER                          -> <<>>

PublicSuffixes == {<<"com">>, <<"org">>, <<"uk">>, <<"co", "uk">>}

\* Root domains the certificate store holds a certificate for.
CertificateStore == {<<"example", "com">>, <<"example", "co", "uk">>}

----------------------------------------------------------------------------
(* Pure helpers of handler.go *)

\* getLabel: the label's value, or the empty string when the label is absent.
getLabel(name, container) ==
    IF name \in DOMAIN container.Config.Labels
    THEN container.Config.Labels[name]
    ELSE ""

\* The last n labels of a domain.
Suffix(labels, n) == SubSeq(labels, Len(labels) - n + 1, Len(labels))

\* publicsuffix.EffectiveTLDPlusOne: the longest listed public suffix of the
\* domain (the last label when none is listed) plus one more label; an error
\* when the domain is empty or is itself a public suffix.
EffectiveTLDPlusOne(domain) ==
    LET labels == Split(domain)
        listed == {n \in 1..Len(labels) : Suffix(labels, n) \in PublicSuffixes}
        suffix == IF listed = {} THEN 1
                  ELSE CHOOSE n \in listed : \A m \in listed : m <= n
    IN  IF Len(labels) <= suffix
        THEN [domain |-> <<>>, err |-> CertificateError]
        ELSE [domain |-> Suffix(labels, suffix + 1), err |-> nil]

\* getRootDomain returns the root domain for a given hostname.
getRootDomain(hostname) == EffectiveTLDPlusOne(hostname)

\* The certificate store's answer for a root domain.
FindCertificateForHost(rootHostname) ==
    IF rootHostname \in CertificateStore
    THEN [cert |-> rootHostname, err |-> nil]
    ELSE [cert |-> <<>>, err |-> CertificateError]

\* getCertificate: a certificate for the hostname's root domain, or the
\* error of the step that failed.
getCertificate(hostname) ==
    LET root == getRootDomain(hostname)
    IN  IF root.err # nil
        THEN [cert |-> <<>>, err |-> root.err]
        ELSE FindCertificateForHost(root.domain)

\* net.LookupHost: the published addresses, or an error while the name is
\* not (yet) resolvable.
LookupHost(host, ok) ==
    IF ok
    THEN [resolved |-> Addresses(host), err |-> nil]
    ELSE [resolved |-> <<>>, err |-> ResolutionError]

\* The address resolveHostname returns from a successful lookup.
FirstAddress(resolved) == resolved[1]

\* A loop that tests the counter with <= makes one attempt too many.
MayRetryOffByOne(attempts) == attempts <= maxAttempts

\* The retry loop's condition.
MayRetry(attempts) == attempts < maxAttempts

\* The IP of the tunnel configuration: the supplied label wins over DNS.
ConfigIP(supplied_ip, ip) == IF supplied_ip # "" THEN supplied_ip ELSE ip

\* The protocol of the tunnel configuration: "http" unless labelled.
ConfigProtocolKeepsEmpty(protocol) == protocol

ConfigProtocol(protocol) == IF protocol = "" THEN "http" ELSE protocol

\* An opt-in test that, like the stop sequence, looks at the hostname only.
OptedInHostnameOnly(hostname, port) == ~(hostname = "")

\* The container is opted in when both the hostname and the port are labelled.
OptedIn(hostname, port) == ~(hostname = "" \/ port = "")

\* A dispatch that also treats "stop" as the end of a container.
DispatchStopAsDie(status) ==
    CASE status = "start" -> "handleStartEvent"
      [] status \in {"die", "stop"} -> "handleDieEvent"
      [] OTHER -> "none"

\* HandleEvent's dispatch on the event's status.
Dispatch(status) ==
    CASE status = "start" -> "handleStartEvent"
      [] status = "die"   -> "handleDieEvent"
      [] OTHER            -> "none"

----------------------------------------------------------------------------
(* The tunnel registry *)

Hosts(reg) == {e.host : e \in reg}

\* A Put that adds the entry without replacing the hostname's old one.
PutKeepsOld(reg, hostname, t) == reg \cup {[host |-> hostname, tunnel |-> t]}

\* Put unconditionally replaces any entry of the hostname.
Put(reg, hostname, t) ==
    {e \in reg : e.host # hostname} \cup {[host |-> hostname, tunnel |-> t]}

\* Remove deletes the hostname's entry if present.
Remove(reg, hostname) == {e \in reg : e.host # hostname}

\* GetTunnelForHost: the hostname's tunnel, or a not-found error.
GetTunnelForHost(reg, hostname) ==
    IF hostname \in Hosts(reg)
    THEN [tunnel |-> (CHOOSE e \in reg : e.host = hostname).tunnel, err |-> nil]
    ELSE [tunnel |-> 0, err |-> TunnelNotFoundError]

----------------------------------------------------------------------------
(* State *)

NoEvent == [Status |-> "", ID |-> ""]

EmptyFrame ==
    [fn |-> "", seq |-> "", event |-> NoEvent, hostname |-> "", port |-> "",
     supplied_ip |-> "", protocol |-> "", ip |-> "", attempts |-> 0,
     failed |-> 0, err |-> nil, tunnel |-> 0,
     container |-> "", dying |-> {}, died |-> FALSE]

\* History kept with a start sequence's frame: `dying` holds the stop
\* sequences for the same container that began after this sequence's
\* inspection and are still running, and `died` tells that one of them
\* finished before this sequence started its tunnel.
BetweenInspectionAndStart(p) ==
    frame[p].seq = "handleStartEvent" /\ pc[p] \in {"resolve", "cert", "tunnel"}

\* The frames fr once the invocation on slot q has begun.
Begun(fr, q) ==
    [r \in Procs |->
        IF /\ r # q /\ fr[q].seq = "handleDieEvent"
           /\ BetweenInspectionAndStart(r)
           /\ fr[r].event.ID = fr[q].event.ID
        THEN [fr[r] EXCEPT !.dying = @ \cup {q}]
        ELSE fr[r]]

\* The frames fr once the sequence on slot q has finished.
Finished(fr, q) ==
    [r \in Procs |->
        IF q \in fr[r].dying
        THEN [fr[r] EXCEPT !.dying = @ \ {q},
                           !.died = @ \/ BetweenInspectionAndStart(r)]
        ELSE fr[r]]

NoOutput == [fn |-> "", seq |-> "", ret |-> nil, logged |-> nil]

\* A step that returns nothing to the handler's caller.
Silent == out' = NoOutput

Init ==
    /\ pc = [p \in Procs |-> "idle"]
    /\ frame = [p \in Procs |-> EmptyFrame]
    /\ registry = {}
    /\ tunnels = <<>>
    /\ handled = 0
    /\ out = NoOutput

----------------------------------------------------------------------------
(* Entry points *)

\* The frame of a fresh invocation of `fn` running sequence `seq` on `event`.
NewFrame(fn, seq, event) ==
    [EmptyFrame EXCEPT !.fn = fn, !.seq = seq, !.event = event]

\* A HandleEvent that hands the sequence's error on to the event source.
OutputPropagates(fn, seq, err) == [fn |-> fn, seq |-> seq, ret |-> err, logged |-> nil]

\* What HandleEvent logs and HandleContainer returns for the error of the
\* sequence `seq`: HandleEvent has no result, HandleContainer does not log.
Output(fn, seq, err) ==
    IF fn = "HandleEvent"
    THEN [fn |-> fn, seq |-> seq, ret |-> nil, logged |-> err]
    ELSE [fn |-> fn, seq |-> seq, ret |-> err, logged |-> nil]

\* A new invocation runs on the first slot that is free.
FreeSlot(p) == pc[p] = "idle" /\ \A q \in Procs : q < p => pc[q] # "idle"

\* HandleEvent: run the sequence the status selects; any other status
\* returns at once.
HandleEvent(p, event) ==
    /\ FreeSlot(p)
    /\ handled < MaxEvents
    /\ handled' = handled + 1
    /\ IF Dispatch(event.Status) = "none"
       THEN /\ out' = Output("HandleEvent", "none", nil)
            /\ UNCHANGED <<pc, frame>>
       ELSE /\ pc' = [pc EXCEPT ![p] = "inspect"]
            /\ frame' = Begun([frame EXCEPT
                   ![p] = NewFrame("HandleEvent", Dispatch(event.Status), event)], p)
            /\ Silent
    /\ UNCHANGED <<registry, tunnels>>

\* HandleContainer: run the start sequence on an event that carries the id.
HandleContainer(p, id) ==
    /\ FreeSlot(p)
    /\ handled < MaxEvents
    /\ handled' = handled + 1
    /\ pc' = [pc EXCEPT ![p] = "inspect"]
    /\ frame' = [frame EXCEPT
           ![p] = NewFrame("HandleContainer", "handleStartEvent",
                           [Status |-> "", ID |-> id])]
    /\ Silent /\ UNCHANGED <<registry, tunnels>>

\* The sequence has returned: HandleEvent logs its error and returns,
\* HandleContainer returns it.
Return(p) ==
    /\ pc[p] = "return"
    /\ out' = Output(frame[p].fn, frame[p].seq, frame[p].err)
    /\ pc' = [pc EXCEPT ![p] = "idle"]
    /\ frame' = [frame EXCEPT ![p] = EmptyFrame]
    /\ UNCHANGED <<registry, tunnels, handled>>

----------------------------------------------------------------------------
(* handleStartEvent *)

\* An inspection step that takes the supplied IP for the address and goes
\* straight to the certificate lookup.
StartInspectSkipsResolution(p) ==
    /\ pc[p] = "inspect"
    /\ frame[p].seq = "handleStartEvent"
    /\ \E ok \in BOOLEAN :
        LET container == ContainerJSON(frame[p].event.ID)
            hostname == getLabel(heraHostname, container)
            port == getLabel(heraPort, container)
            supplied_ip == getLabel(heraIP, container)
        IN  IF ~ok
            THEN /\ frame' = [frame EXCEPT ![p].err = InspectionError]
                 /\ pc' = [pc EXCEPT ![p] = "return"]
            ELSE /\ frame' = [frame EXCEPT
                        ![p].container = container.Config.Hostname,
                        ![p].hostname = hostname,
                        ![p].port = port,
                        ![p].supplied_ip = supplied_ip,
                        ![p].ip = supplied_ip,
                        ![p].protocol = getLabel(heraProtocol, container)]
                 /\ pc' = [pc EXCEPT
                        ![p] = IF ~(hostname # "" /\ port # "") THEN "return"
                               ELSE IF supplied_ip # "" THEN "cert"
                               ELSE "resolve"]
    /\ out' = [fn |-> "", seq |-> "", ret |-> nil, logged |-> nil]
    /\ UNCHANGED <<registry, tunnels, handled>>

\* Inspect the container and read its labels; a container that is not opted
\* in ends the sequence without an error.
StartInspect(p) ==
    /\ pc[p] = "inspect"
    /\ frame[p].seq = "handleStartEvent"
    /\ \E ok \in BOOLEAN :
        LET container == ContainerJSON(frame[p].event.ID)
            hostname == getLabel(heraHostname, container)
            port == getLabel(heraPort, container)
        IN  IF ~ok
            THEN /\ frame' = [frame EXCEPT ![p].err = InspectionError]
                 /\ pc' = [pc EXCEPT ![p] = "return"]
            ELSE /\ frame' = [frame EXCEPT
                        ![p].container = container.Config.Hostname,
                        ![p].hostname = hostname,
                        ![p].port = port,
                        ![p].supplied_ip = getLabel(heraIP, container),
                        ![p].protocol = getLabel(heraProtocol, container)]
                 /\ pc' = [pc EXCEPT
                        ![p] = IF OptedIn(hostname, port) THEN "resolve" ELSE "return"]
    /\ Silent /\ UNCHANGED <<registry, tunnels, handled>>

\* One iteration of resolveHostname's loop: a failed lookup is retried, a
\* successful one returns the first address; the supplied IP and the default
\* protocol are applied on the way to the certificate lookup.  frame[p].failed
\* counts the lookups that failed; the loop's counters stay in the frame until
\* the sequence makes its next call.
ResolveAttempt(p) ==
    /\ pc[p] = "resolve"
    /\ MayRetry(frame[p].attempts)
    /\ \E ok \in BOOLEAN :
        LET attempts == frame[p].attempts + 1
            looked == LookupHost(ContainerJSON(frame[p].event.ID).Config.Hostname, ok)
        IN  IF looked.err # nil
            THEN /\ frame' = [frame EXCEPT ![p].attempts = attempts,
                                           ![p].failed = @ + 1]
                 /\ UNCHANGED pc
            ELSE /\ frame' = [frame EXCEPT
                        ![p].attempts = attempts,
                        ![p].ip = ConfigIP(frame[p].supplied_ip,
                                           FirstAddress(looked.resolved)),
                        ![p].protocol = ConfigProtocol(frame[p].protocol)]
                 /\ pc' = [pc EXCEPT ![p] = "cert"]
    /\ Silent /\ UNCHANGED <<registry, tunnels, handled>>

\* A loop that starts over with a fresh counter when its attempts are used up.
ResolveExhaustedRestarts(p) ==
    /\ pc[p] = "resolve"
    /\ frame[p].attempts >= maxAttempts
    /\ frame' = [frame EXCEPT ![p].attempts = 0, ![p].failed = 0]
    /\ out' = [fn |-> "", seq |-> "", ret |-> nil, logged |-> nil]
    /\ UNCHANGED <<pc, registry, tunnels, handled>>

\* The loop ends without an address: the sequence returns the error.
ResolveExhausted(p) ==
    /\ pc[p] = "resolve"
    /\ ~MayRetry(frame[p].attempts)
    /\ frame' = [frame EXCEPT ![p].err = ResolutionError]
    /\ pc' = [pc EXCEPT ![p] = "return"]
    /\ Silent /\ UNCHANGED <<registry, tunnels, handled>>

\* A certificate step that does not test the lookup's error.
StartCertificateIgnoresError(p) ==
    /\ pc[p] = "cert"
    /\ frame' = [frame EXCEPT ![p].attempts = 0, ![p].failed = 0]
    /\ pc' = [pc EXCEPT ![p] = "tunnel"]
    /\ out' = [fn |-> "", seq |-> "", ret |-> nil, logged |-> nil]
    /\ UNCHANGED <<registry, tunnels, handled>>

\* The certificate lookup; its error ends the sequence.
StartCertificate(p) ==
    /\ pc[p] = "cert"
    /\ LET found == getCertificate(frame[p].hostname)
       IN  IF found.err # nil
           THEN /\ frame' = [frame EXCEPT ![p].err = found.err,
                                          ![p].attempts = 0, ![p].failed = 0]
                /\ pc' = [pc EXCEPT ![p] = "return"]
           ELSE /\ frame' = [frame EXCEPT ![p].attempts = 0, ![p].failed = 0]
                /\ pc' = [pc EXCEPT ![p] = "tunnel"]
    /\ Silent /\ UNCHANGED <<registry, tunnels, handled>>

\* The configuration handleStartEvent builds from its locals.
TunnelConfigOfContainer(f) ==
    [IP |-> f.ip, Hostname |-> f.event.ID, Port |-> f.port, Protocol |-> f.protocol]

TunnelConfig(f) ==
    [IP |-> f.ip, Hostname |-> f.hostname, Port |-> f.port, Protocol |-> f.protocol]

\* What handleStartEvent returns after tunnel.Start(): the call's result is
\* discarded.
StartResult(startErr) == nil

\* Tunnel.Start: the transport serves the configuration and the tunnel is
\* registered under its hostname, or the transport fails and nothing changes.
TunnelStart(config, ok) ==
    IF ok
    THEN /\ tunnels' = Append(tunnels, [config |-> config, running |-> TRUE, stops |-> 0])
         /\ registry' = Put(registry, config.Hostname, Len(tunnels) + 1)
    ELSE UNCHANGED <<tunnels, registry>>

\* Build the configuration, construct the tunnel and start it.
StartTunnel(p) ==
    /\ pc[p] = "tunnel"
    /\ \E ok \in BOOLEAN :
        /\ TunnelStart(TunnelConfig(frame[p]), ok)
        /\ frame' = [frame EXCEPT
               ![p].err = StartResult(IF ok THEN nil ELSE TunnelOperationError),
               ![p].tunnel = IF ok THEN Len(tunnels) + 1 ELSE 0]
    /\ pc' = [pc EXCEPT ![p] = "return"]
    /\ Silent /\ UNCHANGED handled

----------------------------------------------------------------------------
(* handleDieEvent *)

\* An inspection step that goes on with the empty container when the
\* inspection has failed.
DieInspectIgnoresError(p) ==
    /\ pc[p] = "inspect"
    /\ frame[p].seq = "handleDieEvent"
    /\ \E ok \in BOOLEAN :
        LET container == ContainerJSON(frame[p].event.ID)
            hostname == IF ok THEN getLabel(heraHostname, container) ELSE ""
        IN  /\ frame' = IF hostname = ""
                        THEN Finished([frame EXCEPT ![p].container =
                                 IF ok THEN container.Config.Hostname ELSE ""], p)
                        ELSE [frame EXCEPT
                                 ![p].container = container.Config.Hostname,
                                 ![p].hostname = hostname]
            /\ pc' = [pc EXCEPT ![p] = IF hostname = "" THEN "return" ELSE "get"]
    /\ out' = [fn |-> "", seq |-> "", ret |-> nil, logged |-> nil]
    /\ UNCHANGED <<registry, tunnels, handled>>

\* Inspect the container and read its hostname label; without one the
\* sequence ends without an error.
DieInspect(p) ==
    /\ pc[p] = "inspect"
    /\ frame[p].seq = "handleDieEvent"
    /\ \E ok \in BOOLEAN :
        LET container == ContainerJSON(frame[p].event.ID)
            hostname == getLabel(heraHostname, container)
        IN  IF ~ok
            THEN /\ frame' = Finished([frame EXCEPT ![p].err = InspectionError], p)
                 /\ pc' = [pc EXCEPT ![p] = "return"]
            ELSE /\ frame' = IF hostname = ""
                             THEN Finished([frame EXCEPT
                                      ![p].container = container.Config.Hostname], p)
                             ELSE [frame EXCEPT
                                      ![p].container = container.Config.Hostname,
                                      ![p].hostname = hostname]
                 /\ pc' = [pc EXCEPT ![p] = IF hostname = "" THEN "return" ELSE "get"]
    /\ Silent /\ UNCHANGED <<registry, tunnels, handled>>

\* A lookup step that treats a missing tunnel as nothing to do.
DieGetTunnelIgnoresMissing(p) ==
    /\ pc[p] = "get"
    /\ LET got == GetTunnelForHost(registry, frame[p].hostname)
       IN  IF got.err # nil
           THEN /\ pc' = [pc EXCEPT ![p] = "return"]
                /\ frame' = Finished(frame, p)
           ELSE /\ frame' = [frame EXCEPT ![p].tunnel = got.tunnel]
                /\ pc' = [pc EXCEPT ![p] = "stop"]
    /\ out' = [fn |-> "", seq |-> "", ret |-> nil, logged |-> nil]
    /\ UNCHANGED <<registry, tunnels, handled>>

\* Look the tunnel up by hostname; a missing tunnel ends the sequence.
DieGetTunnel(p) ==
    /\ pc[p] = "get"
    /\ LET got == GetTunnelForHost(registry, frame[p].hostname)
       IN  IF got.err # nil
           THEN /\ frame' = Finished([frame EXCEPT ![p].err = got.err], p)
                /\ pc' = [pc EXCEPT ![p] = "return"]
           ELSE /\ frame' = [frame EXCEPT ![p].tunnel = got.tunnel]
                /\ pc' = [pc EXCEPT ![p] = "stop"]
    /\ Silent /\ UNCHANGED <<registry, tunnels, handled>>

\* Tunnel.Stop: the transport stops serving and the tunnel's hostname is
\* removed from the registry, or the transport fails and nothing else changes.
TunnelStop(t, ok) ==
    IF ok
    THEN /\ tunnels' = [tunnels EXCEPT ![t].running = FALSE, ![t].stops = @ + 1]
         /\ registry' = Remove(registry, tunnels[t].config.Hostname)
    ELSE /\ tunnels' = [tunnels EXCEPT ![t].stops = @ + 1]
         /\ UNCHANGED registry

\* A stop step that unregisters the hostname before it knows Stop's result.
DieStopTunnelRemovesFirst(p) ==
    /\ pc[p] = "stop"
    /\ \E ok \in BOOLEAN :
        /\ tunnels' = [tunnels EXCEPT ![frame[p].tunnel].running = IF ok THEN FALSE ELSE @,
                                      ![frame[p].tunnel].stops = @ + 1]
        /\ frame' = Finished([frame EXCEPT
               ![p].err = IF ok THEN nil ELSE TunnelOperationError], p)
    /\ registry' = {e \in registry : e.host # frame[p].hostname}
    /\ pc' = [pc EXCEPT ![p] = "return"]
    /\ out' = [fn |-> "", seq |-> "", ret |-> nil, logged |-> nil]
    /\ UNCHANGED handled

\* A stop step that discards Stop's error, as the start step does Start's.
DieStopTunnelIgnoresError(p) ==
    /\ pc[p] = "stop"
    /\ \E ok \in BOOLEAN : TunnelStop(frame[p].tunnel, ok)
    /\ frame' = Finished(frame, p)
    /\ pc' = [pc EXCEPT ![p] = "return"]
    /\ out' = [fn |-> "", seq |-> "", ret |-> nil, logged |-> nil]
    /\ UNCHANGED handled

\* Stop the tunnel; the sequence returns Stop's error.
DieStopTunnel(p) ==
    /\ pc[p] = "stop"
    /\ \E ok \in BOOLEAN :
        /\ TunnelStop(frame[p].tunnel, ok)
        /\ frame' = Finished([frame EXCEPT
               ![p].err = IF ok THEN nil ELSE TunnelOperationError], p)
    /\ pc' = [pc EXCEPT ![p] = "return"]
    /\ Silent /\ UNCHANGED handled

----------------------------------------------------------------------------
(* Specification *)

Next ==
    \E p \in Procs :
        \/ \E status \in Statuses, id \in ContainerIDs :
               HandleEvent(p, [Status |-> status, ID |-> id])
        \/ \E id \in ContainerIDs : HandleContainer(p, id)
        \/ StartInspect(p)
        \/ ResolveAttempt(p)
        \/ ResolveExhausted(p)
        \/ StartCertificate(p)
        \/ StartTunnel(p)
        \/ DieInspect(p)
        \/ DieGetTunnel(p)
        \/ DieStopTunnel(p)
        \/ Return(p)

Spec == Init /\ [][Next]_vars

\* One step of the invocation running on slot p: the return of the call it
\* is waiting for, up to the statement that makes the next call or returns.
Step(p) ==
    \/ StartInspect(p)
    \/ ResolveAttempt(p)
    \/ ResolveExhausted(p)
    \/ StartCertificate(p)
    \/ StartTunnel(p)
    \/ DieInspect(p)
    \/ DieGetTunnel(p)
    \/ DieStopTunnel(p)
    \/ Return(p)

\* Every call an invocation makes returns, with whatever result, and the
\* invocation then runs on; events arrive or not as the event source pleases.
FairSpec == Spec /\ \A p \in Procs : WF_vars(Step(p))

----------------------------------------------------------------------------
(* Vocabulary of the properties *)

\* The hostname label and the port label of a container, read from the
\* runtime's label map.
LabelOf(id, name) ==
    IF name \in DOMAIN ContainerLabels(id) THEN ContainerLabels(id)[name] ELSE ""

LabelledOptedIn(id) == LabelOf(id, heraHostname) # "" /\ LabelOf(id, heraPort) # ""

\* The registry entries of a hostname.
EntriesOf(reg, hostname) == {e \in reg : e.host = hostname}

\* The tunnels that have been started and not stopped.
Running == {t \in DOMAIN tunnels : tunnels[t].running}

\* p runs the start sequence / the stop sequence.
Starting(p) == frame[p].seq = "handleStartEvent"
Dying(p) == frame[p].seq = "handleDieEvent"

----------------------------------------------------------------------------
(* Properties *)

\* C1: in every reachable state the registry holds at most one entry per
\* hostname, whatever the interleaving of start and stop sequences.
C1_OneEntryPerHostname ==
    \A e1 \in registry : \A e2 \in registry : e1.host = e2.host => e1 = e2

\* C1 witness: two tunnels have been started for one hostname and the
\* registry holds an entry for that hostname.
C1_Witness ==
    \E t1 \in DOMAIN tunnels : \E t2 \in DOMAIN tunnels :
        /\ t1 # t2
        /\ tunnels[t1].config.Hostname = tunnels[t2].config.Hostname
        /\ tunnels[t1].config.Hostname \in Hosts(registry)

\* C2: the registry is the single source of truth: every running tunnel is
\* the registry's entry of its hostname, and every entry is a running tunnel.
C2_RegistryIsSourceOfTruth ==
    /\ \A t \in Running :
           [host |-> tunnels[t].config.Hostname, tunnel |-> t] \in registry
    /\ \A e \in registry : e.tunnel \in Running

\* C3: a start sequence that returns success for an opted-in container leaves
\* exactly one entry for the container's hostname, whose IP is the supplied-IP
\* label when non-empty and the first resolved address otherwise.
C3_SuccessfulStartRegisters ==
    [][\A p \in Procs :
          (/\ pc[p] = "tunnel"
           /\ pc'[p] = "return"
           /\ frame'[p].err = nil)
          => LET id == frame[p].event.ID
                 entries == EntriesOf(registry', LabelOf(id, heraHostname))
                 wanted == IF LabelOf(id, heraIP) # ""
                           THEN LabelOf(id, heraIP)
                           ELSE Addresses(ContainerJSON(id).Config.Hostname)[1]
             IN  /\ Cardinality(entries) = 1
                 /\ \A e \in entries : tunnels'[e.tunnel].config.IP = wanted]_vars

\* C4: the start sequence of a container whose hostname label or port label
\* is empty goes from the inspection straight to its return: no lookup, no
\* certificate step, no change of the registry or the tunnels, no error.
C4_NotOptedInIsNoOp ==
    [][\A p \in Procs :
          (/\ pc[p] = "inspect"
           /\ Starting(p)
           /\ pc'[p] # "inspect"
           /\ frame'[p].err # InspectionError
           /\ ~LabelledOptedIn(frame[p].event.ID))
          => /\ pc'[p] = "return"
             /\ frame'[p].err = nil
             /\ frame'[p].attempts = 0
             /\ registry' = registry
             /\ tunnels' = tunnels]_vars

\* C4 witness: a start sequence has returned without error for a container
\* that lacks the hostname label, and another for one that lacks the port.
C4_Witness ==
    \E p \in Procs : \E q \in Procs :
        /\ pc[p] = "return" /\ Starting(p) /\ frame[p].err = nil
        /\ frame[p].hostname = "" /\ frame[p].port # ""
        /\ pc[q] = "return" /\ Starting(q) /\ frame[q].err = nil
        /\ frame[q].hostname # "" /\ frame[q].port = ""

\* C5: when the certificate lookup for the hostname label fails, the start
\* sequence returns an error and changes neither the registry nor the
\* tunnels; no tunnel ever exists for a hostname without a certificate.
C5_NoTunnelWithoutCertificate ==
    [][/\ \A p \in Procs :
             (/\ pc[p] = "cert"
              /\ pc'[p] # "cert"
              /\ getCertificate(LabelOf(frame[p].event.ID, heraHostname)).err # nil)
             => /\ pc'[p] = "return"
                /\ frame'[p].err = CertificateError
                /\ registry' = registry
                /\ tunnels' = tunnels
       /\ \A t \in DOMAIN tunnels' :
             getCertificate(tunnels'[t].config.Hostname).err = nil]_vars

\* C5 witness: one start sequence has failed on an unparseable root domain
\* and another on a root domain the store has no certificate for.
C5_Witness ==
    \E p \in Procs : \E q \in Procs :
        /\ pc[p] = "return" /\ frame[p].err = CertificateError
        /\ getRootDomain(frame[p].hostname).err # nil
        /\ pc[q] = "return" /\ frame[q].err = CertificateError
        /\ getRootDomain(frame[q].hostname).err = nil

\* C6: HandleEvent never hands a failure to the event source: when a
\* sequence run by HandleEvent returns, with or without an error, the error
\* is logged, nothing is returned and the slot is free for the next event.
C6_HandleEventNeverPropagates ==
    [][\A p \in Procs :
          (/\ pc[p] = "return"
           /\ frame[p].fn = "HandleEvent"
           /\ pc'[p] # "return")
          => /\ pc'[p] = "idle"
             /\ out'.fn = "HandleEvent"
             /\ out'.ret = nil
             /\ out'.logged = frame[p].err
             /\ registry' = registry
             /\ tunnels' = tunnels]_vars

\* C6 witness: HandleEvent has just logged the failure of a stop sequence
\* while budget and a free slot remain for further events.
C6_Witness ==
    /\ out.fn = "HandleEvent"
    /\ out.seq = "handleDieEvent"
    /\ out.logged = TunnelNotFoundError
    /\ handled < MaxEvents
    /\ \E p \in Procs : pc[p] = "idle"

\* C7: HandleEvent runs the start sequence for status "start", the stop
\* sequence for status "die", and for any other status returns at once
\* without inspecting a container or touching the registry or the tunnels.
C7_DispatchByStatus ==
    [][\A p \in Procs : \A status \in Statuses : \A id \in ContainerIDs :
          HandleEvent(p, [Status |-> status, ID |-> id])
          => /\ registry' = registry
             /\ tunnels' = tunnels
             /\ status = "start" =>
                    pc'[p] = "inspect" /\ frame'[p].seq = "handleStartEvent"
             /\ status = "die" =>
                    pc'[p] = "inspect" /\ frame'[p].seq = "handleDieEvent"
             /\ status \notin {"start", "die"} =>
                    /\ pc' = pc
                    /\ frame' = frame
                    /\ out' = [fn |-> "HandleEvent", seq |-> "none",
                               ret |-> nil, logged |-> nil]]_vars

\* C7 witness: an event of another status has just been handled while a
\* tunnel is registered.
C7_Witness ==
    /\ out.fn = "HandleEvent"
    /\ out.seq = "none"
    /\ registry # {}

\* C8: when the transport fails to start the tunnel, the start sequence
\* returns an error and no registry entry results.
C8_StartFailureIsReturned ==
    [][\A p \in Procs :
          (/\ pc[p] = "tunnel"
           /\ pc'[p] = "return"
           /\ tunnels' = tunnels)
          => /\ frame'[p].err # nil
             /\ registry' = registry]_vars

\* C9: a resolution whose first N lookups fail makes N+1 lookups and succeeds
\* when N < 5; after 5 failed lookups it returns a resolution error, and a
\* sixth lookup is never made.
C9_BoundedRetry ==
    \A p \in Procs :
        /\ frame[p].attempts <= 5
        /\ pc[p] = "resolve" => frame[p].attempts = frame[p].failed
        /\ pc[p] = "cert" =>
               frame[p].failed < 5 /\ frame[p].attempts = frame[p].failed + 1
        /\ frame[p].err = ResolutionError =>
               frame[p].failed = 5 /\ frame[p].attempts = 5
        /\ (pc[p] = "resolve" /\ frame[p].failed = 5) => ~ENABLED ResolveAttempt(p)

\* C9 witness: a resolution has returned its error after 5 failed lookups
\* while another has succeeded at its fifth lookup.
C9_Witness ==
    \E p \in Procs : \E q \in Procs :
        /\ pc[p] = "return" /\ frame[p].err = ResolutionError /\ frame[p].attempts = 5
        /\ pc[q] = "cert" /\ frame[q].failed = 4 /\ frame[q].attempts = 5

\* C10: a stop sequence whose Stop succeeds leaves no registry entry for the
\* container's hostname, leaves the tunnel stopped, and has invoked Stop on
\* it exactly once.
C10_SuccessfulStopUnregisters ==
    [][\A p \in Procs :
          (/\ pc[p] = "stop"
           /\ pc'[p] = "return"
           /\ frame'[p].err = nil)
          => LET t == frame[p].tunnel
             IN  /\ LabelOf(frame[p].event.ID, heraHostname) \notin Hosts(registry')
                 /\ ~tunnels'[t].running
                 /\ tunnels'[t].stops = tunnels[t].stops + 1]_vars

\* C10 witness: the tunnel started for container c1 has been stopped by
\* c1's die event after one call of Stop and its hostname is unregistered.
C10_Witness ==
    \E p \in Procs :
        /\ pc[p] = "return" /\ Dying(p) /\ frame[p].err = nil
        /\ frame[p].event.ID = "c1"
        /\ frame[p].tunnel \in DOMAIN tunnels
        /\ tunnels[frame[p].tunnel].config.IP = "1.2.3.4"
        /\ tunnels[frame[p].tunnel].stops = 1
        /\ ~tunnels[frame[p].tunnel].running
        /\ frame[p].hostname \notin Hosts(registry)

\* C11: a stop sequence for a hostname without a registry entry returns the
\* tunnel-not-found error, calls Stop on no tunnel and leaves the registry
\* unchanged.
C11_StopWithoutTunnel ==
    [][\A p \in Procs :
          (/\ pc[p] = "get"
           /\ pc'[p] # "get"
           /\ LabelOf(frame[p].event.ID, heraHostname) \notin Hosts(registry))
          => /\ pc'[p] = "return"
             /\ frame'[p].err = TunnelNotFoundError
             /\ frame'[p].tunnel = 0
             /\ registry' = registry
             /\ tunnels' = tunnels]_vars

\* C11 witness: a stop sequence has returned the tunnel-not-found error while
\* the registry holds another hostname's tunnel.
C11_Witness ==
    \E p \in Procs :
        /\ pc[p] = "return" /\ Dying(p)
        /\ frame[p].err = TunnelNotFoundError
        /\ frame[p].hostname \notin Hosts(registry)
        /\ registry # {}

\* C12: the stop sequence unregisters a hostname only with a successful Stop:
\* a step that changes the registry returns no error and leaves the tunnel
\* stopped, and a Stop that leaves the tunnel running returns an error and
\* leaves the registry as it was.
C12_RemoveOnlyAfterStop ==
    [][\A p \in Procs :
          (pc[p] = "stop" /\ pc'[p] = "return")
          => LET t == frame[p].tunnel
             IN  /\ registry' # registry =>
                        frame'[p].err = nil /\ ~tunnels'[t].running
                 /\ frame'[p].err # nil => registry' = registry
                 /\ tunnels'[t].running =>
                        /\ frame'[p].err = TunnelOperationError
                        /\ registry' = registry
                        /\ tunnels'[t].config = tunnels[t].config]_vars

\* C12 witness: a stop sequence has returned Stop's error and the tunnel is
\* still running and registered under its hostname.
C12_Witness ==
    \E p \in Procs :
        /\ pc[p] = "return" /\ Dying(p)
        /\ frame[p].err = TunnelOperationError
        /\ frame[p].tunnel \in Running
        /\ [host |-> frame[p].hostname, tunnel |-> frame[p].tunnel] \in registry

\* C13: a die event for a container that is not opted in (its hostname label
\* or its port label is empty) is a no-op: its stop sequence looks up and
\* stops no tunnel, leaves the registry unchanged and returns no error.
C13_DieOfNotOptedInIsNoOp ==
    [][\A p \in Procs :
          (/\ Dying(p)
           /\ pc[p] # "return"
           /\ pc'[p] # pc[p]
           /\ frame'[p].err # InspectionError
           /\ ~LabelledOptedIn(frame[p].event.ID))
          => /\ pc'[p] = "return"
             /\ frame'[p].err = nil
             /\ registry' = registry
             /\ tunnels' = tunnels]_vars

\* The part of C13 the code keeps: a die event for a container without a
\* hostname label is a no-op.
C13_DieWithoutHostnameIsNoOp ==
    [][\A p \in Procs :
          (/\ Dying(p)
           /\ pc[p] # "return"
           /\ pc'[p] # pc[p]
           /\ frame'[p].err # InspectionError
           /\ LabelOf(frame[p].event.ID, heraHostname) = "")
          => /\ pc'[p] = "return"
             /\ frame'[p].err = nil
             /\ registry' = registry
             /\ tunnels' = tunnels]_vars

\* The tunnel of container c1 has been stopped and unregistered by the die
\* event of container c6, which has the hostname label but no port label.
C13_StoppedByNotOptedIn ==
    \E p \in Procs :
        /\ pc[p] = "return" /\ Dying(p) /\ frame[p].event.ID = "c6"
        /\ frame[p].tunnel \in DOMAIN tunnels
        /\ tunnels[frame[p].tunnel].config.IP = "1.2.3.4"
        /\ ~tunnels[frame[p].tunnel].running

\* The tunnel configurations two finished start sequences for one container
\* have registered agree, whichever entry point ran them.
SameConfigs(pcs, fr, tn) ==
    \A p \in Procs : \A q \in Procs :
        (/\ pcs[p] = "return" /\ pcs[q] = "return"
         /\ fr[p].seq = "handleStartEvent" /\ fr[q].seq = "handleStartEvent"
         /\ fr[p].event.ID = fr[q].event.ID
         /\ fr[p].tunnel # 0 /\ fr[q].tunnel # 0)
        => tn[fr[p].tunnel].config = tn[fr[q].tunnel].config

\* HandleContainer enters the start sequence exactly as HandleEvent does for
\* a "start" event of the same container, the two leave the same tunnel
\* configuration, and on return HandleContainer hands the sequence's error to
\* its caller while HandleEvent logs it and returns nothing.
SameSequence ==
    /\ \A p \in Procs : \A id \in ContainerIDs :
           HandleContainer(p, id)
           => /\ pc'[p] = "inspect"
              /\ [frame'[p] EXCEPT !.fn = "HandleEvent",
                                   !.event = [Status |-> "start", ID |-> id]]
                 = NewFrame("HandleEvent", Dispatch("start"),
                            [Status |-> "start", ID |-> id])
              /\ registry' = registry /\ tunnels' = tunnels
    /\ SameConfigs(pc', frame', tunnels')
    /\ \A p \in Procs :
           (pc[p] = "return" /\ pc'[p] = "idle")
           => /\ registry' = registry /\ tunnels' = tunnels
              /\ frame[p].fn = "HandleContainer" =>
                     out'.ret = frame[p].err /\ out'.logged = nil
              /\ frame[p].fn = "HandleEvent" =>
                     out'.ret = nil /\ out'.logged = frame[p].err

\* HandleContainer returns nil exactly when its sequence has started and
\* registered a tunnel or the container is not opted in.
NilOnlyOnSuccess ==
    \A p \in Procs :
        (pc[p] = "return" /\ pc'[p] = "idle" /\ frame[p].fn = "HandleContainer")
        => (out'.ret = nil <=>
               \/ frame[p].tunnel # 0
               \/ (frame[p].err = nil /\ ~LabelledOptedIn(frame[p].event.ID)))

\* C14: HandleContainer(id) runs the same start sequence as HandleEvent with a
\* "start" event for the container, with the same registry and tunnel state
\* as result; they differ only in that HandleContainer returns the sequence's
\* error (nil exactly when the sequence succeeds or the container is not opted
\* in) while HandleEvent returns nothing.
C14_HandleContainerAsStartEvent == [][SameSequence /\ NilOnlyOnSuccess]_vars

\* The part of C14 the code keeps: the same sequence, the same result, and
\* the sequence's error returned by HandleContainer alone.
C14_SameSequenceAndReturn == [][SameSequence]_vars

\* HandleContainer has returned nil for an opted-in container whose tunnel
\* the transport failed to start.
C14_NilWithoutTunnel ==
    \E p \in Procs :
        /\ pc[p] = "return" /\ frame[p].fn = "HandleContainer"
        /\ frame[p].err = nil /\ frame[p].tunnel = 0
        /\ LabelledOptedIn(frame[p].event.ID)

\* C15: the tunnel configuration a start sequence hands to the transport has
\* protocol "http" when the container's protocol label is empty and the
\* label's value otherwise.
C15_ProtocolDefault ==
    [][\A p \in Procs :
          (pc[p] = "tunnel" /\ pc'[p] = "return")
          => LET label == LabelOf(frame[p].event.ID, heraProtocol)
                 config == TunnelConfig(frame[p])
             IN /\ config.Protocol = (IF label = "" THEN "http" ELSE label)
                /\ \A t \in DOMAIN tunnels' \ DOMAIN tunnels :
                       tunnels'[t].config.Protocol = config.Protocol]_vars

\* One tunnel runs with the defaulted protocol and one with a labelled one.
C15_Witness ==
    \E t \in Running : \E u \in Running :
        /\ tunnels[t].config.Protocol = "http"
        /\ tunnels[t].config.Hostname = "a.example.com"
        /\ tunnels[u].config.Protocol = "https"

\* The entries and tunnels of every hostname other than a are the same in the
\* two states, and no tunnel has been created for such a hostname.
OthersUntouched(a) ==
    /\ \A e \in (registry \cup registry') :
           e.host # a => (e \in registry /\ e \in registry')
    /\ \A t \in DOMAIN tunnels' :
           tunnels'[t].config.Hostname # a
           => (t \in DOMAIN tunnels /\ tunnels'[t] = tunnels[t])

C17_DieDuringStart ==
    \A p \in Procs :
        (/\ pc[p] = "return" /\ Starting(p)
         /\ frame[p].died /\ frame[p].dying = {})
        => /\ frame[p].tunnel \notin Running
           /\ \A e \in registry : e.tunnel # frame[p].tunnel

\* The container of a finished start sequence died while the sequence was
\* resolving, and the sequence's tunnel is registered and running.
C17_TunnelOfDeadContainer ==
    \E p \in Procs :
        /\ pc[p] = "return" /\ Starting(p) /\ frame[p].died
        /\ frame[p].tunnel \in Running
        /\ [host |-> frame[p].hostname, tunnel |-> frame[p].tunnel] \in registry
        /\ \E q \in Procs :
               /\ pc[q] = "return" /\ Dying(q)
               /\ frame[q].event.ID = frame[p].event.ID
               /\ frame[q].err = TunnelNotFoundError

\* C18: a start or stop sequence whose container inspection fails returns the
\* inspection error at once: it has resolved nothing, looked up no
\* certificate and no tunnel, started and stopped no tunnel and left the
\* registry as it was, and nothing but the return follows.
C18_InspectionFailureAborts ==
    [][\A p \in Procs :
          /\ (pc[p] = "inspect" /\ pc'[p] # "inspect" /\ frame'[p].container = "")
             => /\ pc'[p] = "return"
                /\ frame'[p].err = InspectionError
                /\ frame'[p].attempts = 0 /\ frame'[p].failed = 0
                /\ frame'[p].ip = "" /\ frame'[p].tunnel = 0
                /\ registry' = registry /\ tunnels' = tunnels
          /\ (pc[p] = "return" /\ frame[p].err = InspectionError /\ pc'[p] # "return")
             => /\ pc'[p] = "idle"
                /\ frame[p].container = ""
                /\ registry' = registry /\ tunnels' = tunnels]_vars

\* A stop sequence has returned the inspection error while the tunnel
\* registered under its container's hostname is running.
C18_Witness ==
    \E p \in Procs : \E e \in registry :
        /\ pc[p] = "return" /\ Dying(p)
        /\ frame[p].err = InspectionError /\ frame[p].container = ""
        /\ e.host = LabelOf(frame[p].event.ID, heraHostname)
        /\ e.tunnel \in Running

\* C19: the supplied IP replaces the resolved address and does not replace
\* the resolution: a start sequence reaches the certificate lookup only from
\* a lookup of the hostname that succeeded, and a sequence whose 5 lookups
\* have failed returns the resolution error without a tunnel, with or without
\* a supplied IP.
C19_SuppliedIPNeedsResolution ==
    [][\A p \in Procs :
          LET id == frame[p].event.ID
              supplied == LabelOf(id, heraIP)
          IN /\ (pc'[p] = "cert" /\ pc[p] # "cert")
                => /\ pc[p] = "resolve"
                   /\ frame'[p].attempts = frame[p].attempts + 1
                   /\ frame'[p].failed = frame[p].failed
                   /\ frame'[p].ip = (IF supplied # "" THEN supplied
                                      ELSE Addresses(id)[1])
             /\ (pc[p] = "cert" /\ pc'[p] # "cert")
                => frame[p].attempts = frame[p].failed + 1
             /\ (pc[p] = "resolve" /\ frame[p].failed = maxAttempts /\ pc'[p] # "resolve")
                => /\ pc'[p] = "return"
                   /\ frame'[p].err = ResolutionError
                   /\ frame'[p].tunnel = 0 /\ frame'[p].ip = ""
                   /\ registry' = registry /\ tunnels' = tunnels
             /\ (pc[p] = "return" /\ frame[p].err = ResolutionError /\ pc'[p] # "return")
                => /\ pc'[p] = "idle"
                   /\ registry' = registry /\ tunnels' = tunnels]_vars

\* A start sequence for a container with a supplied IP has returned the
\* resolution error after 5 failed lookups, and another one has started a
\* tunnel on the supplied IP after a lookup that succeeded.
C19_Witness ==
    \E p \in Procs : \E q \in Procs :
        /\ pc[p] = "return" /\ Starting(p)
        /\ frame[p].supplied_ip # "" /\ frame[p].failed = maxAttempts
        /\ frame[p].err = ResolutionError /\ frame[p].tunnel = 0
        /\ pc[q] = "return" /\ Starting(q)
        /\ frame[q].tunnel \in Running
        /\ tunnels[frame[q].tunnel].config.IP = frame[q].supplied_ip

\* C20: when every call to inspection, resolver, certificate store and tunnel
\* transport returns, every invocation of HandleEvent and HandleContainer
\* returns in the end, however the lookups of the resolver fail.
C20_EveryHandlingTerminates ==
    \A p \in Procs : (pc[p] # "idle") ~> (pc[p] = "idle")

\* An invocation whose 5 lookups all failed has returned and no invocation
\* is running.
C20_Witness ==
    /\ out.seq = "handleStartEvent"
    /\ ResolutionError \in {out.ret, out.logged}
    /\ \A p \in Procs : pc[p] = "idle"

====
